---- MODULE Spec2Model ----
(***************************************************************************)
(* Stock and price reconciliation of the watch remnants with two          *)
(* marketplaces: seller.py (Ozon Seller API) and market.py (Yandex Market *)
(* partner API, campaigns FBS and DBS).                                    *)
(*                                                                         *)
(* A Python str is a sequence of one-character strings, so that split,    *)
(* re.sub, str() and int() are computed character by character.  The      *)
(* Cyrillic letters of the source are written in Latin letters: the price *)
(* suffix is "rub.", and the keys of a remnant are Kod, Kolichestvo and   *)
(* Cena.                                                                   *)
(***************************************************************************)
EXTENDS Integers, Sequences, FiniteSets, TLC

VARIABLES
    price,            \* price_conversion: the argument
    converted,        \* price_conversion: the strs returned so far (none, or one)
    lst,              \* divide: the list argument
    n,                \* divide: the size argument
    gen,              \* divide: the generator object's state
    pos,              \* divide: how many values of range() the for loop has taken
    yielded,          \* divide: the slices next() has returned so far, in order
    variant,          \* which module's create_stocks / create_prices is called
    watch_remnants,   \* the remnants list
    offer_ids,        \* the offer-id list object, mutated by create_stocks
    calls,            \* the create_stocks calls made on offer_ids: what each was
                      \* passed and what it returned or raised, in call order
    prices_out,       \* the create_prices call made on offer_ids, if any: what it
                      \* was passed and what it returned or raised
    now,              \* the UTC clock, in whole seconds
    pc,               \* main: the statement the run is at
    campaign,         \* main: the shop the run is working on
    fetched,          \* main: what each get_offer_ids call returned, in call order
    computed,         \* main: every payload list computed, in order
    batches,          \* main: the list(divide(...)) the for loop iterates
    sent,             \* main: how many items of batches the loop has taken
    pushed,           \* the marketplace: every update_stocks and update_price
                      \* request received, in order
    printed,          \* the console: the messages printed
    coroutines,       \* main: the coroutine objects created and never awaited
    failure           \* main: the exception raised, if any, and where

priceVars  == <<price, converted>>
divideVars == <<lst, n, gen, pos, yielded>>
engineVars == <<variant, watch_remnants, offer_ids, calls, prices_out, now>>
runVars == <<pc, campaign, fetched, computed, batches, sent, pushed, printed, coroutines, failure>>
vars == <<priceVars, divideVars, engineVars, runVars>>

(***************************************************************************)
(* Python built-ins on str, int and list.                                  *)
(***************************************************************************)
Digits == {"0", "1", "2", "3", "4", "5", "6", "7", "8", "9"}

DigitChars == <<"0", "1", "2", "3", "4", "5", "6", "7", "8", "9">>

\* The value of one decimal digit character.
DigitVal(c) == (CHOOSE d \in 1..10 : DigitChars[d] = c) - 1

\* str(k) of a non-negative int: its decimal digits, no leading zero.
RECURSIVE str(_)
str(k) ==
    IF k < 10 THEN <<DigitChars[k + 1]>>
    ELSE str(k \div 10) \o <<DigitChars[(k % 10) + 1]>>

\* Whether int(s) accepts the str s: here, one or more decimal digits.
IsIntLiteral(s) == Len(s) > 0 /\ \A i \in 1..Len(s) : s[i] \in Digits

\* int(s) of an accepted str: leading zeros are dropped ("07" is 7).
RECURSIVE int(_)
int(s) ==
    IF Len(s) = 0 THEN 0
    ELSE 10 * int(SubSeq(s, 1, Len(s) - 1)) + DigitVal(s[Len(s)])

\* x in l, for a list l.
In(x, l) == \E i \in 1..Len(l) : l[i] = x

\* Remove with the removal forgotten: the list is left as it was.
RemoveNothing(l, x) == l

\* l.remove(x): the list without the first item equal to x (x is in l).
Remove(l, x) ==
    LET i == CHOOSE j \in 1..Len(l) : l[j] = x /\ \A m \in 1..(j - 1) : l[m] # x
    IN  SubSeq(l, 1, i - 1) \o SubSeq(l, i + 1, Len(l))

\* s.split("."): the segments between the periods, in order.
RECURSIVE split(_)
split(s) ==
    IF ~In(".", s) THEN <<s>>
    ELSE LET k == CHOOSE j \in 1..Len(s) : s[j] = "." /\ \A m \in 1..(j - 1) : s[m] # "."
         IN  <<SubSeq(s, 1, k - 1)>> \o split(SubSeq(s, k + 1, Len(s)))

\* re.sub("[^0-9]", "", s): every character outside 0-9 is deleted.
RECURSIVE re_sub(_)
re_sub(s) ==
    IF s = <<>> THEN <<>>
    ELSE (IF Head(s) \in Digits THEN <<Head(s)>> ELSE <<>>) \o re_sub(Tail(s))

\* len(range(start, stop, step)) for step # 0.
range_len(start, stop, step) ==
    IF step > 0
    THEN (IF stop > start THEN (stop - start + step - 1) \div step ELSE 0)
    ELSE (IF stop < start THEN (start - stop - step - 1) \div (-step) ELSE 0)

\* range(start, stop, step) for step # 0, as the list of its values.
range(start, stop, step) ==
    [k \in 1..range_len(start, stop, step) |-> start + (k - 1) * step]

\* An index of a slice, clamped as Python clamps it.
SliceIndex(l, i) ==
    IF i < 0 THEN (IF i + Len(l) < 0 THEN 0 ELSE i + Len(l))
    ELSE (IF i > Len(l) THEN Len(l) ELSE i)

\* l[i:j]
Slice(l, i, j) == SubSeq(l, SliceIndex(l, i) + 1, SliceIndex(l, j))

(***************************************************************************)
(* seller.py: price_conversion                                             *)
(***************************************************************************)
\* price_conversion without the split: the digits after the period are kept.
price_conversion_whole(p) == re_sub(p)

price_conversion(p) == re_sub(split(p)[1])

(***************************************************************************)
(* seller.py: divide.  The generator's k-th value is the slice at the     *)
(* k-th value of range(0, len(lst), n); range() raises ValueError when n  *)
(* is 0, at the first next().                                              *)
(***************************************************************************)
\* Whether range(start, stop, step) raises ValueError.
range_raises(step) == step = 0

\* divide_range stepping by the magnitude of size.
divide_range_abs(l, size) == range(0, Len(l), IF size < 0 THEN -size ELSE size)

divide_range(l, size) == range(0, Len(l), size)

\* divide_yield with a slice one item short.
divide_yield_short(l, size, k) ==
    Slice(l, divide_range(l, size)[k], divide_range(l, size)[k] + size - 1)

divide_yield(l, size, k) == Slice(l, divide_range(l, size)[k], divide_range(l, size)[k] + size)

\* list_divide without the short last slice.
list_divide_full_slices(l, size) == [k \in 1..(Len(l) \div size) |-> divide_yield(l, size, k)]

\* list(divide(l, size)) for size # 0.
list_divide(l, size) == [k \in 1..Len(divide_range(l, size)) |-> divide_yield(l, size, k)]

(***************************************************************************)
(* seller.py and market.py: create_stocks.  A call returns the payload    *)
(* list, or raises ValueError from int() on a quantity that is no number; *)
(* either way the ids it removed from the offer_ids list stay removed.    *)
(***************************************************************************)
NoError == "no error"

MoreThanTen == <<">", "1", "0">>

ExactlyOne == <<"1">>

\* Whether the quantity resolves to a count (int() does not raise).
stock_resolves(quantity) ==
    quantity = MoreThanTen \/ quantity = ExactlyOne \/ IsIntLiteral(quantity)

\* stock_count without the "1" sentinel: a single unit is reported as 1.
stock_count_single_unit(quantity) ==
    IF quantity = MoreThanTen THEN 100 ELSE int(quantity)

\* The count of a matched remnant, from the str of its quantity.
stock_count(quantity) ==
    IF quantity = MoreThanTen THEN 100
    ELSE IF quantity = ExactlyOne THEN 0
    ELSE int(quantity)

seller_stock(offer_id, stock) == [offer_id |-> offer_id, stock |-> stock]

market_stock(sku, warehouse_id, count, date) ==
    [sku |-> sku, warehouseId |-> warehouse_id,
     items |-> <<[count |-> count, type |-> "FIT", updatedAt |-> date]>>]

\* The first loop of seller.create_stocks, from remnant k on.
RECURSIVE seller_match_loop(_, _, _, _)
seller_match_loop(remnants, k, ids, stocks) ==
    IF k > Len(remnants)
    THEN [raised |-> NoError, stocks |-> stocks, offer_ids |-> ids]
    ELSE LET watch == remnants[k]
         IN  IF In(str(watch.Kod), ids)
             THEN IF stock_resolves(watch.Kolichestvo)
                  THEN seller_match_loop(remnants, k + 1, Remove(ids, str(watch.Kod)),
                           Append(stocks, seller_stock(str(watch.Kod),
                                                       stock_count(watch.Kolichestvo))))
                  ELSE [raised |-> "ValueError", stocks |-> stocks, offer_ids |-> ids]
             ELSE seller_match_loop(remnants, k + 1, ids, stocks)

\* seller.create_stocks without its second loop: stale offers get no payload.
seller_create_stocks_no_padding(remnants, ids) ==
    seller_match_loop(remnants, 1, ids, <<>>)

\* seller.create_stocks(watch_remnants, offer_ids): what it returns or raises,
\* and the offer_ids list as the call leaves it.
seller_create_stocks(remnants, ids) ==
    LET m == seller_match_loop(remnants, 1, ids, <<>>)
    IN  IF m.raised # NoError THEN m
        ELSE [m EXCEPT !.stocks =
                 m.stocks \o [i \in 1..Len(m.offer_ids) |-> seller_stock(m.offer_ids[i], 0)]]

\* The first loop of market.create_stocks, from remnant k on.
RECURSIVE market_match_loop(_, _, _, _, _, _)
market_match_loop(remnants, k, ids, warehouse_id, date, stocks) ==
    IF k > Len(remnants)
    THEN [raised |-> NoError, stocks |-> stocks, offer_ids |-> ids]
    ELSE LET watch == remnants[k]
         IN  IF In(str(watch.Kod), ids)
             THEN IF stock_resolves(watch.Kolichestvo)
                  THEN market_match_loop(remnants, k + 1, Remove(ids, str(watch.Kod)),
                           warehouse_id, date,
                           Append(stocks, market_stock(str(watch.Kod), warehouse_id,
                                                       stock_count(watch.Kolichestvo), date)))
                  ELSE [raised |-> "ValueError", stocks |-> stocks, offer_ids |-> ids]
             ELSE market_match_loop(remnants, k + 1, ids, warehouse_id, date, stocks)

\* market.create_stocks(watch_remnants, offer_ids, warehouse_id), with the
\* clock reading it takes once, at its start.
market_create_stocks(remnants, ids, warehouse_id, date) ==
    LET m == market_match_loop(remnants, 1, ids, warehouse_id, date, <<>>)
    IN  IF m.raised # NoError THEN m
        ELSE [m EXCEPT !.stocks =
                 m.stocks \o [i \in 1..Len(m.offer_ids) |->
                                 market_stock(m.offer_ids[i], warehouse_id, 0, date)]]

(***************************************************************************)
(* seller.py and market.py: create_prices.  offer_ids is only read.       *)
(***************************************************************************)
\* priced with a code priced once: a remnant whose code an earlier remnant
\* holds is skipped.
priced_first_only(remnants, ids) ==
    LET kept == SelectSeq([k \in 1..Len(remnants) |-> k],
                          LAMBDA k : /\ In(str(remnants[k].Kod), ids)
                                     /\ \A j \in 1..(k - 1) : remnants[j].Kod # remnants[k].Kod)
    IN  [i \in 1..Len(kept) |-> remnants[kept[i]]]

\* The remnants create_prices emits a payload for, in remnants order.
priced(remnants, ids) == SelectSeq(remnants, LAMBDA watch : In(str(watch.Kod), ids))

seller_create_prices(remnants, ids) ==
    [raised |-> NoError,
     prices |-> [k \in 1..Len(priced(remnants, ids)) |->
                    [auto_action_enabled |-> "UNKNOWN",
                     currency_code |-> "RUB",
                     offer_id |-> str(priced(remnants, ids)[k].Kod),
                     old_price |-> "0",
                     price |-> price_conversion(priced(remnants, ids)[k].Cena)]]]

\* market.create_prices: int() raises ValueError on a price with no digit
\* before its first period.
market_create_prices(remnants, ids) ==
    IF \E k \in 1..Len(priced(remnants, ids)) :
           ~IsIntLiteral(price_conversion(priced(remnants, ids)[k].Cena))
    THEN [raised |-> "ValueError", prices |-> <<>>]
    ELSE [raised |-> NoError,
          prices |-> [k \in 1..Len(priced(remnants, ids)) |->
                         [id |-> str(priced(remnants, ids)[k].Kod),
                          price |-> [value |-> int(price_conversion(priced(remnants, ids)[k].Cena)),
                                     currencyId |-> "RUR"]]]]

(***************************************************************************)
(* The bounded inputs.                                                     *)
(***************************************************************************)
MaxPriceLen == 3
MaxLen == 4
MaxSize == 5
MaxNegSize == 2
MaxRemnants == 2
MaxOffers == 2
MaxCalls == 2

SeqsUpTo(S, m) == UNION {[1..k -> S] : k \in 0..m}

\* "5'990.00 rub.", the price of the docstrings
DocPrice == <<"5", "'", "9", "9", "0", ".", "0", "0", " ", "r", "u", "b", ".">>

\* "rub.", a price with no digit
NoDigitPrice == <<"r", "u", "b", ".">>

\* The product codes of the spreadsheet (ints).
Codes == {69785, 7}

\* A quantity as str() gives it, with a price: the two sentinels, 0 and a
\* number above one; a price with digits and one without.  create_stocks
\* never reads the price, nor create_prices the quantity, so each quantity
\* comes with one price.
Rows == {[Kolichestvo |-> MoreThanTen, Cena |-> DocPrice],
         [Kolichestvo |-> ExactlyOne, Cena |-> NoDigitPrice],
         [Kolichestvo |-> <<"0">>, Cena |-> DocPrice],
         [Kolichestvo |-> <<"2", "5">>, Cena |-> NoDigitPrice]}

Remnants == {[Kod |-> c, Kolichestvo |-> r.Kolichestvo, Cena |-> r.Cena] : c \in Codes, r \in Rows}

RemnantLists == SeqsUpTo(Remnants, MaxRemnants)

\* Offer ids of a marketplace: the codes' own text, and the text of no
\* code ("99999").
StaleOffer == <<"9", "9", "9", "9", "9">>

OfferUniverse == {str(69785), str(7), StaleOffer}

OfferLists == SeqsUpTo(OfferUniverse, MaxOffers)

Warehouse == "WAREHOUSE_ID"

\* The variables a specification does not use stay as they are here.
IdlePrice == price = <<>> /\ converted = <<>>

IdleDivide == lst = <<>> /\ n = 1 /\ gen = "idle" /\ pos = 0 /\ yielded = <<>>

IdleEngine ==
    /\ variant = "idle" /\ watch_remnants = <<>> /\ offer_ids = <<>>
    /\ calls = <<>> /\ prices_out = <<>> /\ now = 0

IdleRun ==
    /\ pc = "idle" /\ campaign = "idle" /\ fetched = <<>> /\ computed = <<>>
    /\ batches = <<>> /\ sent = 0 /\ pushed = <<>> /\ printed = <<>>
    /\ coroutines = <<>> /\ failure = <<>>

(***************************************************************************)
(* price_conversion called on a price.                                     *)
(***************************************************************************)
PriceChars == {"5", "9", "'", ".", "r", " "}

\* "5990", a price that is already a number
PlainPrice == <<"5", "9", "9", "0">>

PriceStrings == SeqsUpTo(PriceChars, MaxPriceLen) \cup {DocPrice, PlainPrice, NoDigitPrice}

InitPrice ==
    /\ price \in PriceStrings
    /\ converted = <<>>
    /\ IdleDivide
    /\ IdleEngine
    /\ IdleRun

PriceConversion ==
    /\ converted = <<>>
    /\ converted' = <<price_conversion(price)>>
    /\ UNCHANGED <<price, divideVars, engineVars, runVars>>

NextPrice == PriceConversion

SpecPrice == InitPrice /\ [][NextPrice]_vars

(***************************************************************************)
(* A generator made by divide(lst, n), driven by next().                   *)
(***************************************************************************)
Items == {"a", "b"}

InitDivide ==
    /\ lst \in SeqsUpTo(Items, MaxLen)
    /\ n \in (-MaxNegSize)..MaxSize
    /\ gen = "created"
    /\ pos = 0
    /\ yielded = <<>>
    /\ IdlePrice
    /\ IdleEngine
    /\ IdleRun

\* The first next(): range() raises ValueError, which ends the generator.
NextRaises ==
    /\ gen = "created"
    /\ range_raises(n)
    /\ gen' = "raised"
    /\ UNCHANGED <<lst, n, pos, yielded, priceVars, engineVars, runVars>>

\* next() returns the slice at the next value of range().
NextYields ==
    /\ gen \in {"created", "suspended"}
    /\ ~range_raises(n)
    /\ pos < Len(divide_range(lst, n))
    /\ yielded' = Append(yielded, divide_yield(lst, n, pos + 1))
    /\ pos' = pos + 1
    /\ gen' = "suspended"
    /\ UNCHANGED <<lst, n, priceVars, engineVars, runVars>>

\* next() raises StopIteration: range() is exhausted.
NextStops ==
    /\ gen \in {"created", "suspended"}
    /\ ~range_raises(n)
    /\ pos >= Len(divide_range(lst, n))
    /\ gen' = "done"
    /\ UNCHANGED <<lst, n, pos, yielded, priceVars, engineVars, runVars>>

NextDivide == NextRaises \/ NextYields \/ NextStops

SpecDivide == InitDivide /\ [][NextDivide]_vars

(***************************************************************************)
(* The engine: create_stocks called (repeatedly) on one offer_ids list,   *)
(* and create_prices called on it.                                         *)
(***************************************************************************)
InitEngine ==
    /\ IdlePrice
    /\ IdleDivide
    /\ IdleRun
    /\ variant \in {"seller", "market"}
    /\ watch_remnants \in RemnantLists
    /\ offer_ids \in OfferLists
    /\ calls = <<>>
    /\ prices_out = <<>>
    /\ now = 0

SellerCreateStocks ==
    /\ variant = "seller"
    /\ Len(calls) < MaxCalls
    /\ LET r == seller_create_stocks(watch_remnants, offer_ids)
       IN  /\ calls' = Append(calls, [arg |-> offer_ids, raised |-> r.raised, stocks |-> r.stocks])
           /\ offer_ids' = r.offer_ids
    /\ UNCHANGED <<variant, watch_remnants, prices_out, now>>
    /\ UNCHANGED <<priceVars, divideVars, runVars>>

MarketCreateStocks ==
    /\ variant = "market"
    /\ Len(calls) < MaxCalls
    /\ LET r == market_create_stocks(watch_remnants, offer_ids, Warehouse, now)
       IN  /\ calls' = Append(calls, [arg |-> offer_ids, raised |-> r.raised, stocks |-> r.stocks])
           /\ offer_ids' = r.offer_ids
    /\ \E elapsed \in 0..1 : now' = now + elapsed
    /\ UNCHANGED <<variant, watch_remnants, prices_out>>
    /\ UNCHANGED <<priceVars, divideVars, runVars>>

SellerCreatePrices ==
    /\ variant = "seller"
    /\ prices_out = <<>>
    /\ LET r == seller_create_prices(watch_remnants, offer_ids)
       IN  prices_out' = <<[arg |-> offer_ids, raised |-> r.raised, prices |-> r.prices]>>
    /\ UNCHANGED <<variant, watch_remnants, offer_ids, calls, now>>
    /\ UNCHANGED <<priceVars, divideVars, runVars>>

MarketCreatePrices ==
    /\ variant = "market"
    /\ prices_out = <<>>
    /\ LET r == market_create_prices(watch_remnants, offer_ids)
       IN  prices_out' = <<[arg |-> offer_ids, raised |-> r.raised, prices |-> r.prices]>>
    /\ UNCHANGED <<variant, watch_remnants, offer_ids, calls, now>>
    /\ UNCHANGED <<priceVars, divideVars, runVars>>

NextEngine ==
    \/ SellerCreateStocks
    \/ MarketCreateStocks
    \/ SellerCreatePrices
    \/ MarketCreatePrices

SpecEngine == InitEngine /\ [][NextEngine]_vars


(***************************************************************************)
(* seller.main and market.main: one run of either entry point.  Every     *)
(* network call (get_offer_ids, download_stock, update_stocks,            *)
(* update_price) either returns or raises; the marketplace keeps what it  *)
(* was sent.                                                               *)
(***************************************************************************)
MaxRunRemnants == 1
MaxRunOffers == 2

SellerStocksLimit == 100
SellerPricesLimit == 900
MarketStocksLimit == 2000

\* The remnants of a run: the code 69785 with a sentinel quantity, with a
\* number and a price without digits, and with an empty quantity cell (on
\* which int() raises); and the code 7, which no shop offers.
RunRemnants ==
    {[Kod |-> 69785, Kolichestvo |-> MoreThanTen, Cena |-> DocPrice],
     [Kod |-> 69785, Kolichestvo |-> <<"2", "5">>, Cena |-> NoDigitPrice],
     [Kod |-> 69785, Kolichestvo |-> <<>>, Cena |-> DocPrice],
     [Kod |-> 7, Kolichestvo |-> MoreThanTen, Cena |-> DocPrice]}

RunRemnantLists == SeqsUpTo(RunRemnants, MaxRunRemnants)

\* A shop with m offers: the first is the code 69785, the others are stale.
ManyOffers(m) == [i \in 1..m |-> IF i = 1 THEN str(69785) ELSE str(1000 + i)]

\* What get_offer_ids may return: any short list of a known and a stale id,
\* or a shop with one offer more than a stocks request may carry.
SellerOfferLists ==
    SeqsUpTo({str(69785), StaleOffer}, MaxRunOffers) \cup {ManyOffers(SellerStocksLimit + 1)}

MarketOfferLists ==
    SeqsUpTo({str(69785), StaleOffer}, MaxRunOffers) \cup {ManyOffers(MarketStocksLimit + 1)}

\* What a network call may raise: requests.exceptions.ReadTimeout and
\* ConnectionError, and the HTTPError of raise_for_status().
NetworkErrors == {"ReadTimeout", "ConnectionError", "HTTPError"}

\* The message the handlers of main print for an exception.
handler_message(error) ==
    IF error = "ReadTimeout" THEN "Prevysheno vremya ozhidaniya..."
    ELSE IF error = "ConnectionError" THEN "Oshibka soedineniya"
    ELSE "ERROR_2"

InitRun ==
    /\ IdlePrice
    /\ IdleDivide
    /\ variant \in {"seller", "market"}
    /\ pc = (IF variant = "seller" THEN "get_offer_ids" ELSE "download_stock")
    /\ campaign = (IF variant = "seller" THEN "CLIENT_ID" ELSE "FBS_ID")
    /\ watch_remnants = <<>>
    /\ offer_ids = <<>>
    /\ calls = <<>> /\ prices_out = <<>>
    /\ now = 0
    /\ fetched = <<>> /\ computed = <<>> /\ batches = <<>> /\ sent = 0
    /\ pushed = <<>> /\ printed = <<>> /\ coroutines = <<>> /\ failure = <<>>

runRest == <<priceVars, divideVars, variant, calls, prices_out>>

\* Handled with the exception swallowed where it is raised: the message is
\* printed and main goes on from the statement that raised.
HandledAndResumes(error) ==
    /\ failure' = <<[error |-> error, at |-> pc]>>
    /\ printed' = Append(printed, handler_message(error))
    /\ pc' = pc

\* An exception raised at the current statement reaches the except clauses
\* of main: the message is printed and main returns.
Handled(error) ==
    /\ failure' = <<[error |-> error, at |-> pc]>>
    /\ printed' = Append(printed, handler_message(error))
    /\ pc' = "handled"

\* The for loop over batches has an item left.
Pushing(step) == pc = step /\ sent < Len(batches)

\* The for loop over batches is over.
LoopOver(step) == pc = step /\ sent = Len(batches)

\* ---- seller.main ----
SellerGetOfferIds ==
    /\ variant = "seller" /\ pc = "get_offer_ids"
    /\ \E ids \in SellerOfferLists :
           /\ offer_ids' = ids
           /\ fetched' = Append(fetched, [campaign |-> campaign, ids |-> ids])
    /\ pc' = "download_stock"
    /\ UNCHANGED <<watch_remnants, now, campaign, computed, batches, sent, pushed,
                   printed, coroutines, failure, runRest>>

SellerDownloadStock ==
    /\ variant = "seller" /\ pc = "download_stock"
    /\ watch_remnants' \in RunRemnantLists
    /\ pc' = "create_stocks"
    /\ UNCHANGED <<offer_ids, now, campaign, fetched, computed, batches, sent, pushed,
                   printed, coroutines, failure, runRest>>

SellerStocks ==
    /\ variant = "seller" /\ pc = "create_stocks"
    /\ LET r == seller_create_stocks(watch_remnants, offer_ids)
       IN  /\ r.raised = NoError
           /\ offer_ids' = r.offer_ids
           /\ computed' = Append(computed, [campaign |-> campaign, kind |-> "stocks",
                                            payloads |-> r.stocks])
           /\ batches' = list_divide(r.stocks, SellerStocksLimit)
    /\ sent' = 0
    /\ pc' = "update_stocks"
    /\ UNCHANGED <<watch_remnants, now, campaign, fetched, pushed, printed, coroutines,
                   failure, runRest>>

SellerStocksRaise ==
    /\ variant = "seller" /\ pc = "create_stocks"
    /\ LET r == seller_create_stocks(watch_remnants, offer_ids)
       IN  /\ r.raised # NoError
           /\ offer_ids' = r.offer_ids
           /\ Handled(r.raised)
    /\ UNCHANGED <<watch_remnants, now, campaign, fetched, computed, batches, sent, pushed,
                   coroutines, runRest>>

SellerUpdateStocks ==
    /\ variant = "seller" /\ Pushing("update_stocks")
    /\ pushed' = Append(pushed, [campaign |-> campaign, kind |-> "stocks",
                                 batch |-> batches[sent + 1]])
    /\ sent' = sent + 1
    /\ UNCHANGED <<pc, watch_remnants, offer_ids, now, campaign, fetched, computed, batches,
                   printed, coroutines, failure, runRest>>

SellerPrices ==
    /\ variant = "seller" /\ LoopOver("update_stocks")
    /\ LET r == seller_create_prices(watch_remnants, offer_ids)
       IN  /\ computed' = Append(computed, [campaign |-> campaign, kind |-> "prices",
                                            payloads |-> r.prices])
           /\ batches' = list_divide(r.prices, SellerPricesLimit)
    /\ sent' = 0
    /\ pc' = "update_price"
    /\ UNCHANGED <<watch_remnants, offer_ids, now, campaign, fetched, pushed, printed,
                   coroutines, failure, runRest>>

SellerUpdatePrice ==
    /\ variant = "seller" /\ Pushing("update_price")
    /\ pushed' = Append(pushed, [campaign |-> campaign, kind |-> "prices",
                                 batch |-> batches[sent + 1]])
    /\ sent' = sent + 1
    /\ UNCHANGED <<pc, watch_remnants, offer_ids, now, campaign, fetched, computed, batches,
                   printed, coroutines, failure, runRest>>

SellerReturns ==
    /\ variant = "seller" /\ LoopOver("update_price")
    /\ pc' = "done"
    /\ UNCHANGED <<watch_remnants, offer_ids, now, campaign, fetched, computed, batches,
                   sent, pushed, printed, coroutines, failure, runRest>>

\* A network call of seller.main raises: all of them are inside its try.
SellerCallRaises ==
    /\ variant = "seller"
    /\ \/ pc \in {"get_offer_ids", "download_stock"}
       \/ Pushing("update_stocks")
       \/ Pushing("update_price")
    /\ \E error \in NetworkErrors : Handled(error)
    /\ UNCHANGED <<watch_remnants, offer_ids, now, campaign, fetched, computed, batches,
                   sent, pushed, coroutines, runRest>>

\* ---- market.main ----
\* The next statement after the work on a campaign: DBS follows FBS.
after_campaign(c) == IF c = "FBS_ID" THEN "get_offer_ids" ELSE "done"

warehouse_of(c) == IF c = "FBS_ID" THEN "WAREHOUSE_FBS_ID" ELSE "WAREHOUSE_DBS_ID"

MarketDownloadStock ==
    /\ variant = "market" /\ pc = "download_stock"
    /\ watch_remnants' \in RunRemnantLists
    /\ pc' = "get_offer_ids"
    /\ UNCHANGED <<offer_ids, now, campaign, fetched, computed, batches, sent, pushed,
                   printed, coroutines, failure, runRest>>

\* download_stock is called before the try: its exception leaves main.
MarketDownloadRaises ==
    /\ variant = "market" /\ pc = "download_stock"
    /\ \E error \in NetworkErrors : failure' = <<[error |-> error, at |-> pc]>>
    /\ pc' = "escaped"
    /\ UNCHANGED <<watch_remnants, offer_ids, now, campaign, fetched, computed, batches,
                   sent, pushed, printed, coroutines, runRest>>

MarketGetOfferIds ==
    /\ variant = "market" /\ pc = "get_offer_ids"
    /\ \E ids \in MarketOfferLists :
           /\ offer_ids' = ids
           /\ fetched' = Append(fetched, [campaign |-> campaign, ids |-> ids])
    /\ pc' = "create_stocks"
    /\ UNCHANGED <<watch_remnants, now, campaign, computed, batches, sent, pushed,
                   printed, coroutines, failure, runRest>>

MarketStocks ==
    /\ variant = "market" /\ pc = "create_stocks"
    /\ LET r == market_create_stocks(watch_remnants, offer_ids, warehouse_of(campaign), now)
       IN  /\ r.raised = NoError
           /\ offer_ids' = r.offer_ids
           /\ computed' = Append(computed, [campaign |-> campaign, kind |-> "stocks",
                                            payloads |-> r.stocks])
           /\ batches' = list_divide(r.stocks, MarketStocksLimit)
    /\ now' = now + 1
    /\ sent' = 0
    /\ pc' = "update_stocks"
    /\ UNCHANGED <<watch_remnants, campaign, fetched, pushed, printed, coroutines,
                   failure, runRest>>

MarketStocksRaise ==
    /\ variant = "market" /\ pc = "create_stocks"
    /\ LET r == market_create_stocks(watch_remnants, offer_ids, warehouse_of(campaign), now)
       IN  /\ r.raised # NoError
           /\ offer_ids' = r.offer_ids
           /\ Handled(r.raised)
    /\ UNCHANGED <<watch_remnants, now, campaign, fetched, computed, batches, sent, pushed,
                   coroutines, runRest>>

MarketUpdateStocks ==
    /\ variant = "market" /\ Pushing("update_stocks")
    /\ pushed' = Append(pushed, [campaign |-> campaign, kind |-> "stocks",
                                 batch |-> batches[sent + 1]])
    /\ sent' = sent + 1
    /\ UNCHANGED <<pc, watch_remnants, offer_ids, now, campaign, fetched, computed, batches,
                   printed, coroutines, failure, runRest>>

\* upload_prices(...) is an async def called without await: the call makes
\* a coroutine object and runs none of its body.
MarketUploadPrices ==
    /\ variant = "market" /\ LoopOver("update_stocks")
    /\ coroutines' = Append(coroutines, [function |-> "upload_prices", campaign |-> campaign])
    /\ pc' = after_campaign(campaign)
    /\ campaign' = "DBS_ID"
    /\ UNCHANGED <<watch_remnants, offer_ids, now, fetched, computed, batches, sent, pushed,
                   printed, failure, runRest>>

\* A network call inside the try of market.main raises.
MarketCallRaises ==
    /\ variant = "market"
    /\ pc = "get_offer_ids" \/ Pushing("update_stocks")
    /\ \E error \in NetworkErrors : Handled(error)
    /\ UNCHANGED <<watch_remnants, offer_ids, now, campaign, fetched, computed, batches,
                   sent, pushed, coroutines, runRest>>

Next ==
    \/ SellerGetOfferIds
    \/ SellerDownloadStock
    \/ SellerStocks
    \/ SellerStocksRaise
    \/ SellerUpdateStocks
    \/ SellerPrices
    \/ SellerUpdatePrice
    \/ SellerReturns
    \/ SellerCallRaises
    \/ MarketDownloadStock
    \/ MarketDownloadRaises
    \/ MarketGetOfferIds
    \/ MarketStocks
    \/ MarketStocksRaise
    \/ MarketUpdateStocks
    \/ MarketUploadPrices
    \/ MarketCallRaises

Init == InitRun

Spec == Init /\ [][Next]_vars

(***************************************************************************)
(* Properties of create_stocks and create_prices (SpecEngine).             *)
(***************************************************************************)
\* The identifier and the count of a stock payload, the identifier of a
\* price payload, in the shape of the module called.
StockId(p) == IF variant = "seller" THEN p.offer_id ELSE p.sku

StockCount(p) == IF variant = "seller" THEN p.stock ELSE p.items[1].count

PriceId(p) == IF variant = "seller" THEN p.offer_id ELSE p.id

CodeOf(k) == str(watch_remnants[k].Kod)

NoDuplicates(l) == \A i, j \in 1..Len(l) : l[i] = l[j] => i = j

Occurrences(l, x) == Cardinality({i \in 1..Len(l) : l[i] = x})

\* An offer id that is the code of no remnant.
IsStale(id) == \A k \in 1..Len(watch_remnants) : CodeOf(k) # id

StaleIn(ids) == {i \in 1..Len(ids) : IsStale(ids[i])}

\* The calls that returned a list.
Returned == {c \in 1..Len(calls) : calls[c].raised = NoError}

\* C1 as stated: the length of the returned list is the number of remnants
\* whose code is in the offer-id set plus the number of offer ids no remnant
\* matches, and every offer id identifies exactly one payload.
C1_LengthCountsRemnants ==
    \A c \in Returned :
        NoDuplicates(calls[c].arg) =>
            /\ Len(calls[c].stocks) =
                   Cardinality({k \in 1..Len(watch_remnants) : In(CodeOf(k), calls[c].arg)})
                   + Cardinality(StaleIn(calls[c].arg))
            /\ \A i \in 1..Len(calls[c].arg) :
                   Cardinality({j \in 1..Len(calls[c].stocks) :
                                    StockId(calls[c].stocks[j]) = calls[c].arg[i]}) = 1

\* C1 as amended: for a set of offer ids, the length of the returned list is
\* the number of distinct remnant codes that are in the offer ids plus the
\* number of offer ids no remnant matches (a code held by several remnants
\* counts once), and every offer id identifies exactly one payload.
C1_LengthCountsCodes ==
    \A c \in Returned :
        NoDuplicates(calls[c].arg) =>
            /\ Len(calls[c].stocks) =
                   Cardinality({CodeOf(k) : k \in {m \in 1..Len(watch_remnants) :
                                                       In(CodeOf(m), calls[c].arg)}})
                   + Cardinality(StaleIn(calls[c].arg))
            /\ \A i \in 1..Len(calls[c].arg) :
                   Cardinality({j \in 1..Len(calls[c].stocks) :
                                    StockId(calls[c].stocks[j]) = calls[c].arg[i]}) = 1

\* C1's case: a call on a set of offer ids of which one is stale and one is
\* the code of two remnants.
C1_Witness ==
    \E c \in Returned :
        /\ NoDuplicates(calls[c].arg)
        /\ StaleIn(calls[c].arg) # {}
        /\ \E k, m \in 1..Len(watch_remnants) :
               k # m /\ CodeOf(k) = CodeOf(m) /\ In(CodeOf(k), calls[c].arg)

\* C2: every stale offer id passed in gets a payload of create_stocks, with
\* count 0, and no payload of create_prices.
C2_StaleZeroedAndUnpriced ==
    /\ \A c \in Returned : \A i \in StaleIn(calls[c].arg) :
           /\ \E j \in 1..Len(calls[c].stocks) : StockId(calls[c].stocks[j]) = calls[c].arg[i]
           /\ \A j \in 1..Len(calls[c].stocks) :
                  StockId(calls[c].stocks[j]) = calls[c].arg[i] => StockCount(calls[c].stocks[j]) = 0
    /\ \A q \in 1..Len(prices_out) : \A i \in StaleIn(prices_out[q].arg) :
           \A j \in 1..Len(prices_out[q].prices) :
               PriceId(prices_out[q].prices[j]) # prices_out[q].arg[i]

\* C2's case: create_stocks and create_prices were both called on offer ids
\* with a stale one, and create_prices returned a payload.
C2_Witness ==
    /\ \E c \in Returned : StaleIn(calls[c].arg) # {} /\ Len(calls[c].stocks) > 1
    /\ \E q \in 1..Len(prices_out) :
           StaleIn(prices_out[q].arg) # {} /\ Len(prices_out[q].prices) > 0

\* The remnants the first loop matches against the offer ids passed in: a
\* remnant is matched while copies of its code are left in the list.
MatchedIn(ids) ==
    {k \in 1..Len(watch_remnants) :
        Cardinality({j \in 1..(k - 1) : CodeOf(j) = CodeOf(k)}) < Occurrences(ids, CodeOf(k))}

\* The place in the output of the payload of matched remnant k.
PlaceOf(k, ids) == Cardinality({j \in MatchedIn(ids) : j <= k})

\* The number a quantity text denotes: the n whose str() it is.
Denoted(quantity) == CHOOSE v \in 0..99 : str(v) = quantity

\* C3: the count emitted for a matched remnant is 100 for ">10", 0 for "1",
\* and n for any other quantity n.
C3_Bucketing ==
    \A c \in Returned : \A k \in MatchedIn(calls[c].arg) :
        LET p == calls[c].stocks[PlaceOf(k, calls[c].arg)]
            quantity == watch_remnants[k].Kolichestvo
        IN  /\ StockId(p) = CodeOf(k)
            /\ quantity = MoreThanTen => StockCount(p) = 100
            /\ quantity = ExactlyOne => StockCount(p) = 0
            /\ quantity \notin {MoreThanTen, ExactlyOne} => StockCount(p) = Denoted(quantity)

\* C3's case: one call matched a remnant with quantity "1" and a remnant with
\* quantity "25".
C3_Witness ==
    \E c \in Returned : \E k, m \in MatchedIn(calls[c].arg) :
        /\ watch_remnants[k].Kolichestvo = ExactlyOne
        /\ watch_remnants[m].Kolichestvo = <<"2", "5">>
        /\ StockCount(calls[c].stocks[PlaceOf(m, calls[c].arg)]) = 25

\* A payload list without its timestamps.
Untimed(stocks) == [j \in 1..Len(stocks) |-> <<StockId(stocks[j]), StockCount(stocks[j])>>]

\* C10: create_stocks called twice with the same remnants list and the same
\* offer-id list returns the same payloads, timestamps apart.
C10_SecondCallAgrees ==
    Len(calls) >= 2 =>
        /\ calls[2].raised = calls[1].raised
        /\ Untimed(calls[2].stocks) = Untimed(calls[1].stocks)

(***************************************************************************)
(* Properties of price_conversion (SpecPrice).                             *)
(***************************************************************************)
\* The place of the first period of the price, or one past its end.
FirstPeriod ==
    IF \E i \in 1..Len(price) : price[i] = "."
    THEN CHOOSE i \in 1..Len(price) : price[i] = "." /\ \A m \in 1..(i - 1) : price[m] # "."
    ELSE Len(price) + 1

\* The places of the digits before the first period.
DigitPlaces == {i \in 1..(FirstPeriod - 1) : price[i] \in Digits}

\* C9: price_conversion returns the digits that precede the first period of
\* its argument, in their order, and nothing else.
C9_DigitsBeforeFirstPeriod ==
    \A q \in 1..Len(converted) :
        /\ Len(converted[q]) = Cardinality(DigitPlaces)
        /\ \A i \in DigitPlaces :
               converted[q][Cardinality({m \in DigitPlaces : m <= i})] = price[i]
        /\ \A j \in 1..Len(converted[q]) : converted[q][j] \in Digits
        /\ price = DocPrice => converted[q] = PlainPrice
        /\ price = PlainPrice => converted[q] = PlainPrice
        /\ price = NoDigitPrice => converted[q] = <<>>

\* C9's case: "5'990.00 rub." was converted, to "5990".
C9_Witness == price = DocPrice /\ converted = <<PlainPrice>>

(***************************************************************************)
(* Properties of divide (SpecDivide).                                      *)
(***************************************************************************)
RECURSIVE Concat(_)
Concat(slices) == IF slices = <<>> THEN <<>> ELSE Head(slices) \o Concat(Tail(slices))

\* C7: for n >= 1 the slices come in order and without gaps, each of n items
\* but the last, which has 1 to n; when the generator ends they make up lst,
\* an empty lst gave none, and a multiple of n gave len(lst)/n full slices.
C7_ContiguousSlices ==
    n >= 1 =>
        /\ gen # "raised"
        /\ Concat(yielded) = SubSeq(lst, 1, Len(Concat(yielded)))
        /\ \A k \in 1..Len(yielded) :
               /\ Len(yielded[k]) \in 1..n
               /\ k < Len(yielded) => Len(yielded[k]) = n
        /\ gen = "done" =>
               /\ Concat(yielded) = lst
               /\ lst = <<>> => yielded = <<>>
               /\ Len(lst) % n = 0 =>
                      /\ Len(yielded) = Len(lst) \div n
                      /\ \A k \in 1..Len(yielded) : Len(yielded[k]) = n

\* C7's case: a list of three items divided by 2 gave two slices and ended.
C7_Witness ==
    /\ Len(lst) = 3 /\ n = 2 /\ gen = "done"
    /\ yielded = <<SubSeq(lst, 1, 2), SubSeq(lst, 3, 3)>>

\* C8 as stated: for n <= 0 the generator never yields and never ends
\* normally.
C8_NonPositiveRaises == n <= 0 => (yielded = <<>> /\ gen # "done")

\* C8 as amended: for n = 0 the generator raises at the first next(), having
\* yielded nothing; for n < 0 it yields nothing and ends normally.
C8_ZeroRaisesNegativeEmpty ==
    /\ n = 0 => (yielded = <<>> /\ gen \in {"created", "raised"})
    /\ n < 0 => (yielded = <<>> /\ gen \in {"created", "done"})

\* C8's case: next() on divide(lst, 0) of a list with items raised.
C8_Witness == n = 0 /\ lst # <<>> /\ gen = "raised"

(***************************************************************************)
(* Properties of the runs of seller.main and market.main (Spec).           *)
(***************************************************************************)
\* The requests of one kind the marketplace received for a shop, in order.
Pushes(c, kind) == SelectSeq(pushed, LAMBDA m : m.campaign = c /\ m.kind = kind)

\* The payloads of those requests, in order.
PushedPayloads(c, kind) ==
    Concat([i \in 1..Len(Pushes(c, kind)) |-> Pushes(c, kind)[i].batch])

\* The offer ids get_offer_ids returned for a shop.
FetchedIds(c) == fetched[CHOOSE i \in 1..Len(fetched) : fetched[i].campaign = c].ids

\* C4: in a run of seller.main that reaches its end, the price payloads
\* pushed hold a payload, with the converted price, for every remnant whose
\* code was among the offer ids fetched.
C4_PricesCoverFetchedOffers ==
    (variant = "seller" /\ pc = "done") =>
        \A k \in 1..Len(watch_remnants) :
            In(CodeOf(k), FetchedIds("CLIENT_ID")) =>
                \E j \in 1..Len(PushedPayloads("CLIENT_ID", "prices")) :
                    /\ PushedPayloads("CLIENT_ID", "prices")[j].offer_id = CodeOf(k)
                    /\ PushedPayloads("CLIENT_ID", "prices")[j].price =
                           price_conversion(watch_remnants[k].Cena)

\* C5: in a run of market.main in which nothing raises, for FBS and for DBS
\* the stock payloads computed have been pushed, and so have the price
\* payloads create_prices gives for the remnants and the offer ids of the shop.
C5_PricesPushedPerCampaign ==
    (variant = "market" /\ pc = "done") =>
        \A c \in {"FBS_ID", "DBS_ID"} :
            /\ \E e \in 1..Len(computed) :
                   /\ computed[e].campaign = c /\ computed[e].kind = "stocks"
                   /\ PushedPayloads(c, "stocks") = computed[e].payloads
            /\ market_create_prices(watch_remnants, FetchedIds(c)).raised = NoError =>
                   PushedPayloads(c, "prices") =
                       market_create_prices(watch_remnants, FetchedIds(c)).prices

\* The most items a request of a kind may carry, by entry point.
RequestLimit(kind) ==
    IF variant = "seller" THEN (IF kind = "stocks" THEN 100 ELSE 900)
    ELSE (IF kind = "stocks" THEN 2000 ELSE 500)

\* C6: the requests of a kind for a shop are, in order, the consecutive
\* chunks of the payload list computed for it: none is empty or above the
\* limit, all but the last sent hold exactly the limit, together they are a
\* prefix of the list, and the whole list once main has reached its end.
C6_BatchesAreChunks ==
    /\ \A i \in 1..Len(pushed) : Len(pushed[i].batch) \in 1..RequestLimit(pushed[i].kind)
    /\ \A i \in 1..Len(pushed) :
           \E e \in 1..Len(computed) :
               LET sentSoFar == PushedPayloads(pushed[i].campaign, pushed[i].kind)
                   requests == Pushes(pushed[i].campaign, pushed[i].kind)
               IN  /\ computed[e].campaign = pushed[i].campaign
                   /\ computed[e].kind = pushed[i].kind
                   /\ sentSoFar = SubSeq(computed[e].payloads, 1, Len(sentSoFar))
                   /\ \A r \in 1..(Len(requests) - 1) :
                          Len(requests[r].batch) = RequestLimit(pushed[i].kind)
    /\ pc = "done" =>
           \A e \in 1..Len(computed) :
               PushedPayloads(computed[e].campaign, computed[e].kind) = computed[e].payloads

\* C6's case: market.main reached its end having sent the stocks of DBS in
\* two requests, the first one full.
C6_Witness ==
    /\ variant = "market" /\ pc = "done"
    /\ Len(Pushes("DBS_ID", "stocks")) = 2
    /\ Len(Pushes("DBS_ID", "stocks")[1].batch) = 2000

\* The transport errors of requests: a read timeout, a connection failure.
TransportErrors == {"ReadTimeout", "ConnectionError"}

\* C11: a transport error raised by a network call of a run (the remnants
\* download, the offer-id listing, a stock or price push) is caught by the
\* handler of main, which prints the message of that error, once; main returns
\* and the error does not leave it.
C11_TransportErrorsCaught ==
    \A i \in 1..Len(failure) :
        failure[i].error \in TransportErrors =>
            /\ pc = "handled"
            /\ printed = <<handler_message(failure[i].error)>>

\* The requests of a kind for a shop are the first k batches of the list
\* being pushed.
FirstBatchesSent(c, kind, k) ==
    Pushes(c, kind) = [i \in 1..k |-> [campaign |-> c, kind |-> kind, batch |-> batches[i]]]

\* What the marketplace was asked or told once a step has raised: the
\* batches before the failing one and nothing after it.
AbortedAt(f) ==
    /\ pc \in {"handled", "escaped"}
    /\ f.at \in {"download_stock", "get_offer_ids", "create_stocks"} =>
           Pushes(campaign, "stocks") = <<>> /\ Pushes(campaign, "prices") = <<>>
    /\ f.at = "update_stocks" =>
           /\ sent < Len(batches)
           /\ FirstBatchesSent(campaign, "stocks", sent)
           /\ Pushes(campaign, "prices") = <<>>
    /\ f.at = "update_price" =>
           /\ sent < Len(batches)
           /\ FirstBatchesSent(campaign, "prices", sent)
    /\ (variant = "market" /\ campaign = "FBS_ID") =>
           /\ \A i \in 1..Len(fetched) : fetched[i].campaign # "DBS_ID"
           /\ \A i \in 1..Len(pushed) : pushed[i].campaign # "DBS_ID"
    /\ Len(failure) = 1

\* C12: once a step of a run has raised, main makes no further marketplace
\* call: the requests sent are the batches before the failing one, none of
\* the same list follows, no price push follows a failed stock push, no call
\* is made for a later shop, and what was sent stays as it was sent.
C12_AbortOnFirstRaise ==
    /\ [](failure # <<>> => AbortedAt(failure[1]))
    /\ [][failure # <<>> => UNCHANGED <<pushed, fetched, computed, coroutines, sent>>]_vars

\* C12's case: seller.main pushed the first of two stock batches and the
\* push of the second raised.
C12_Witness ==
    /\ variant = "seller" /\ pc = "handled"
    /\ failure # <<>> /\ failure[1].at = "update_stocks"
    /\ Len(batches) = 2 /\ sent = 1
    /\ Len(pushed) = 1 /\ Len(pushed[1].batch) = 100

(***************************************************************************)
(* Remnants that hold a code twice (SpecEngine).                           *)
(***************************************************************************)
\* The records of a code, and the codes that several records hold.
RecordsOf(code) == {k \in 1..Len(watch_remnants) : CodeOf(k) = code}

Duplicated == {CodeOf(k) : k \in {m \in 1..Len(watch_remnants) : Cardinality(RecordsOf(CodeOf(m))) >= 2}}

FirstRecord(code) == CHOOSE k \in RecordsOf(code) : \A m \in RecordsOf(code) : k <= m

LastRecord(code) == CHOOSE k \in RecordsOf(code) : \A m \in RecordsOf(code) : m <= k

\* The places of the payloads of a code in a list of stocks or of prices,
\* and the last of them.
StockPlaces(stocks, code) == {j \in 1..Len(stocks) : StockId(stocks[j]) = code}

PricePlaces(prices, code) == {j \in 1..Len(prices) : PriceId(prices[j]) = code}

LastOf(places) == CHOOSE j \in places : \A m \in places : m <= j

\* The price of a payload and the price a record gives, in the shape of the
\* module called.
PriceValue(p) == IF variant = "seller" THEN p.price ELSE p.price.value

PriceOf(watch) ==
    IF variant = "seller" THEN price_conversion(watch.Cena) ELSE int(price_conversion(watch.Cena))

\* The calls of create_prices that returned a list.
ReturnedPrices == {q \in 1..Len(prices_out) : prices_out[q].raised = NoError}

\* C13 as stated: when two records hold a code that is in the offer ids, the
\* last payload written for the code, by create_stocks and by create_prices,
\* carries the value of the last of these records.
C13_LastDuplicateWins ==
    /\ \A c \in Returned : \A code \in Duplicated :
           In(code, calls[c].arg) =>
               /\ StockPlaces(calls[c].stocks, code) # {}
               /\ StockCount(calls[c].stocks[LastOf(StockPlaces(calls[c].stocks, code))]) =
                      stock_count(watch_remnants[LastRecord(code)].Kolichestvo)
    /\ \A q \in ReturnedPrices : \A code \in Duplicated :
           In(code, prices_out[q].arg) =>
               /\ PricePlaces(prices_out[q].prices, code) # {}
               /\ PriceValue(prices_out[q].prices[LastOf(PricePlaces(prices_out[q].prices, code))]) =
                      PriceOf(watch_remnants[LastRecord(code)])

\* C13 as amended: when several records hold a code that is in the offer
\* ids, create_prices does not deduplicate them (one payload per record, the
\* last written carrying the value of the last record), while create_stocks,
\* which consumes the id at the first match, writes for an id held once a
\* single payload, with the value of the first of the records.
C13_FirstStockLastPrice ==
    /\ \A c \in Returned : \A code \in Duplicated :
           Occurrences(calls[c].arg, code) = 1 =>
               /\ Cardinality(StockPlaces(calls[c].stocks, code)) = 1
               /\ StockCount(calls[c].stocks[LastOf(StockPlaces(calls[c].stocks, code))]) =
                      stock_count(watch_remnants[FirstRecord(code)].Kolichestvo)
    /\ \A q \in ReturnedPrices : \A code \in Duplicated :
           In(code, prices_out[q].arg) =>
               /\ Cardinality(PricePlaces(prices_out[q].prices, code)) = Cardinality(RecordsOf(code))
               /\ PriceValue(prices_out[q].prices[LastOf(PricePlaces(prices_out[q].prices, code))]) =
                      PriceOf(watch_remnants[LastRecord(code)])

\* C13's case: create_prices and then create_stocks returned for offer ids
\* that hold once a code of two records, which differ in count and in price.
C13_Witness ==
    \E code \in Duplicated :
        /\ stock_count(watch_remnants[FirstRecord(code)].Kolichestvo)
               # stock_count(watch_remnants[LastRecord(code)].Kolichestvo)
        /\ price_conversion(watch_remnants[FirstRecord(code)].Cena)
               # price_conversion(watch_remnants[LastRecord(code)].Cena)
        /\ \E c \in Returned : Occurrences(calls[c].arg, code) = 1
        /\ \E q \in ReturnedPrices :
               /\ In(code, prices_out[q].arg)
               /\ Cardinality(PricePlaces(prices_out[q].prices, code)) = 2

====
